---------------------------- MODULE Spec2Model ----------------------------
(***************************************************************************)
(* A model of SMachine (s_programming_language.py): the S-language VM with *)
(* recursive macros, per-call namespaces, a snapshot history and rewind.   *)
(*                                                                         *)
(* Names (variables, labels, macro names, operation names) are strings, as *)
(* in the source.  An instruction is a tuple of strings whose first item   *)
(* is the operation: <<"inc","y">>, <<"jnz","x","A">>, <<"A:">>,           *)
(* <<"goto","E">>.  Program counters and label indices are 0-based as in   *)
(* the source; code[pc] of the source is code[pc + 1] here.                *)
(*                                                                         *)
(* Python objects that the machine mutates in place (the variable store    *)
(* dict, the stack list, each frame dict) live in a heap and are referred  *)
(* to by object id, so that "deepcopy" and "shares storage with" mean what *)
(* they mean in the source.                                                *)
(***************************************************************************)
EXTENDS Integers, Sequences, FiniteSets, TLC

VARIABLES
    macros,          \* self.macros: name -> [params, code, locals]
    inputs,          \* self.inputs: name -> value
    program_src,     \* self.program_src: raw program with labels
    program_flat,    \* self.program_flat
    program_labels,  \* self.program_labels
    vars,            \* self.vars: id of the variable store dict
    stack,           \* self.stack: id of the call stack list
    call_ids,        \* self._call_ids: the next value of count()
    step_count,      \* self.step_count
    history,         \* self.history: sequence of snapshots
    heap,            \* object id -> dict, list or frame object
    activations,     \* every macro activation of the machine's life: macro, suffix, locals
    outcome,         \* what the last API call did: call, argument, raised, returned
    rewinds,         \* how many times the driver has rewound the machine
    trial,           \* the driver comparing two executions: which machine it holds,
                     \* how the present execution has been driven since its reset,
                     \* and the first execution it saw through to the end
    utils_call_ids,  \* utils._call_ids: the next value of the module's count()
    utils_outcome    \* what the last call of utils.run_program did

fields == <<macros, inputs, program_src, program_flat, program_labels,
            vars, stack, call_ids, step_count, history, heap, activations>>

allvars == <<macros, inputs, program_src, program_flat, program_labels,
             vars, stack, call_ids, step_count, history, heap, activations,
             outcome, rewinds, trial, utils_call_ids, utils_outcome>>

\* the state of the module utils
utils_vars == <<utils_call_ids, utils_outcome>>

-----------------------------------------------------------------------------
(* Python strings, dicts and lists *)

None == <<>>

NoError == "none"

Max(S) == CHOOSE x \in S : \A y \in S : y <= x

Min(S) == CHOOSE x \in S : \A y \in S : x <= y

\* str.startswith
StartsWith(s, p) == Len(s) >= Len(p) /\ SubSeq(s, 1, Len(p)) = p

\* str.endswith
EndsWith(s, p) == Len(s) >= Len(p) /\ SubSeq(s, Len(s) - Len(p) + 1, Len(s)) = p

\* dict.get(k, default)
DictGet(d, k, default) == IF k \in DOMAIN d THEN d[k] ELSE default

\* d[k] = v
DictSet(d, k, v) == [x \in (DOMAIN d) \cup {k} |-> IF x = k THEN v ELSE d[x]]

EmptyDict == [x \in {} |-> 0]

\* An insertion-ordered dict (the label maps, which the source iterates):
\* a sequence of <<key, value>> with distinct keys.
ODictHas(od, k) == \E i \in 1..Len(od) : od[i][1] = k

ODictGet(od, k) == od[CHOOSE i \in 1..Len(od) : od[i][1] = k][2]

\* od[k] = v: a present key keeps its place, a new key goes last
ODictSet(od, k, v) ==
    IF ODictHas(od, k)
    THEN [i \in 1..Len(od) |-> IF od[i][1] = k THEN <<k, v>> ELSE od[i]]
    ELSE Append(od, <<k, v>>)


-----------------------------------------------------------------------------
(* The heap: the objects the machine mutates in place *)

DictObj(d) == [kind |-> "dict", d |-> d]

ListObj(items) == [kind |-> "list", items |-> items]

\* a fresh object id
NewId(h) == IF DOMAIN h = {} THEN 1 ELSE Max(DOMAIN h) + 1

\* h with object o stored under id n
Store(h, n, o) == [x \in (DOMAIN h) \cup {n} |-> IF x = n THEN o ELSE h[x]]

\* copy.deepcopy of the object ref: a dict of integers is copied to a new
\* dict; a list of frames is copied to a new list of new frames (a frame's
\* code, labels and map hold only immutable strings, tuples and integers and
\* are never mutated in place, so they are kept by value).  No frame occurs
\* twice in a stack list, so deepcopy's memo never comes into play.
deepcopy(h, ref) ==
    LET n == NewId(h) IN
    IF h[ref].kind = "list"
    THEN LET items == h[ref].items
             k == Len(items)
         IN [heap |-> [x \in (DOMAIN h) \cup (n..(n + k)) |->
                          IF x = n THEN ListObj([i \in 1..k |-> n + i])
                          ELSE IF x > n THEN h[items[x - n]]
                          ELSE h[x]],
             ref |-> n]
    ELSE [heap |-> Store(h, n, h[ref]), ref |-> n]

\* The machine as one value: the fields of self and the heap they point into.
Self ==
    [macros |-> macros, inputs |-> inputs, program_src |-> program_src,
     program_flat |-> program_flat, program_labels |-> program_labels,
     vars |-> vars, stack |-> stack, call_ids |-> call_ids,
     step_count |-> step_count, history |-> history, heap |-> heap,
     activations |-> activations]

\* the contents of self.vars, of self.stack, and of a frame of it
VarsOf(m) == m.heap[m.vars].d

ItemsOf(m) == m.heap[m.stack].items

DepthOf(m) == Len(ItemsOf(m))

TopRef(m) == ItemsOf(m)[DepthOf(m)]

TopOf(m) == m.heap[TopRef(m)]

-----------------------------------------------------------------------------
(* Internals *)

_make_frame(code, labels, mapping) ==
    [kind |-> "frame", code |-> code, pc |-> 0, labels |-> labels, map |-> mapping]

RECURSIVE ResolveFrom(_, _, _, _, _)
ResolveFrom(code, suffix, i, labels, flat) ==
    IF i > Len(code) THEN [flat |-> flat, labels |-> labels]
    ELSE LET op == code[i][1] IN
         IF EndsWith(op, ":")
         THEN ResolveFrom(code, suffix, i + 1,
                          ODictSet(labels, SubSeq(op, 1, Len(op) - 1) \o suffix, Len(flat)),
                          flat)
         ELSE ResolveFrom(code, suffix, i + 1, labels, Append(flat, code[i]))

_resolve_labels(code, suffix) == ResolveFrom(code, suffix, 1, <<>>, <<>>)

\* the result of _find_label_in_frame when it returns None
NotFound == -1

_find_label_in_frame(label, frame) ==
    LET lbls == frame.labels
        pre == {i \in 1..Len(lbls) : StartsWith(lbls[i][1], label \o "__")}
    IN IF ODictHas(lbls, label) THEN ODictGet(lbls, label)
       ELSE IF pre # {} THEN lbls[Min(pre)][2]
       ELSE NotFound

\* the outward search of _jump from depth d (1-based) down to the root frame:
\* the first depth whose frame resolves the target, 0 when none does
RECURSIVE Outward(_, _, _)
Outward(m, target, d) ==
    IF d < 1 THEN 0
    ELSE IF _find_label_in_frame(target, m.heap[ItemsOf(m)[d]]) # NotFound THEN d
    ELSE Outward(m, target, d - 1)

\* _jump written with the outward search going from the root frame up, so that
\* the outermost frame holding the label wins
_jump_rootfirst(m, target) ==
    LET idx == _find_label_in_frame(target, TopOf(m)) IN
    IF idx # NotFound
    THEN [m |-> [m EXCEPT !.heap[TopRef(m)].pc = idx], raised |-> NoError]
    ELSE LET hits == {k \in 1..(DepthOf(m) - 1) :
                         _find_label_in_frame(target, m.heap[ItemsOf(m)[k]]) # NotFound} IN
         IF hits = {} THEN [m |-> m, raised |-> "LabelNotFound"]
         ELSE LET cut == [m EXCEPT !.heap[m.stack].items = SubSeq(@, 1, Min(hits))] IN
              [m |-> [cut EXCEPT !.heap[TopRef(cut)].pc =
                          _find_label_in_frame(target, TopOf(cut))],
               raised |-> NoError]

\* _jump written as if it unwound the stack while searching, before it raises
_jump_unwinding(m, target) ==
    LET idx == _find_label_in_frame(target, TopOf(m)) IN
    IF idx # NotFound
    THEN [m |-> [m EXCEPT !.heap[TopRef(m)].pc = idx], raised |-> NoError]
    ELSE LET d == Outward(m, target, DepthOf(m) - 1) IN
         IF d = 0 THEN [m |-> [m EXCEPT !.heap[m.stack].items = SubSeq(@, 1, 1)],
                        raised |-> "LabelNotFound"]
         ELSE LET cut == [m EXCEPT !.heap[m.stack].items = SubSeq(@, 1, d)] IN
              [m |-> [cut EXCEPT !.heap[TopRef(cut)].pc =
                          _find_label_in_frame(target, TopOf(cut))],
               raised |-> NoError]

_jump(m, target) ==
    LET idx == _find_label_in_frame(target, TopOf(m)) IN
    IF idx # NotFound
    THEN [m |-> [m EXCEPT !.heap[TopRef(m)].pc = idx], raised |-> NoError]
    ELSE LET d == Outward(m, target, DepthOf(m) - 1) IN
         IF d = 0 THEN [m |-> m, raised |-> "LabelNotFound"]
         ELSE LET cut == [m EXCEPT !.heap[m.stack].items = SubSeq(@, 1, d)] IN
              [m |-> [cut EXCEPT !.heap[TopRef(cut)].pc =
                          _find_label_in_frame(target, TopOf(cut))],
               raised |-> NoError]

_peek_next_instr(m) ==
    IF DepthOf(m) = 0 THEN None
    ELSE IF TopOf(m).pc >= Len(TopOf(m).code) THEN None
    ELSE TopOf(m).code[TopOf(m).pc + 1]

\* _save_snapshot written without deepcopy: the snapshot keeps the live objects
_save_snapshot_shared(m, current_instr) ==
    [m EXCEPT !.history = Append(@, [step |-> m.step_count,
                                     vars |-> m.vars,
                                     stack |-> m.stack,
                                     stack_depth |-> DepthOf(m),
                                     next_instr |-> current_instr])]

_save_snapshot(m, current_instr) ==
    LET v == deepcopy(m.heap, m.vars)
        s == deepcopy(v.heap, m.stack)
    IN [m EXCEPT !.heap = s.heap,
                 !.history = Append(@, [step |-> m.step_count,
                                        vars |-> v.ref,
                                        stack |-> s.ref,
                                        stack_depth |-> DepthOf(m),
                                        next_instr |-> current_instr])]

\* The values of self.inputs are what the caller passed, of any Python type:
\* an int n is PyInt(n), the float n + 0.5 is PyFloat(n)
PyInt(n) == [type |-> "int", val |-> n]

PyFloat(n) == [type |-> "float", val |-> n]

\* isinstance(v, int)
IsInstanceInt(v) == v.type = "int"

\* _validate_inputs written without the isinstance test
_validate_inputs_signonly(m) ==
    IF \E k \in DOMAIN m.inputs : m.inputs[k].val < 0
    THEN "InvalidInput" ELSE NoError

_validate_inputs(m) ==
    IF \E k \in DOMAIN m.inputs : ~IsInstanceInt(m.inputs[k]) \/ m.inputs[k].val < 0
    THEN "InvalidInput" ELSE NoError

-----------------------------------------------------------------------------
(* Execution control.  Each operator maps the machine before the call to     *)
(* [m |-> the machine after it, raised |-> the error raised or NoError,      *)
(*  returned |-> the value returned], following the statements of the source *)
(* in their order, so that what a raise leaves behind is what the source     *)
(* leaves behind.                                                            *)

\* the suffix written without the call id: the same for every activation
Suffix_unnumbered(call_id) == "__m"

\* "f{loc}{suffix}" with suffix = f"__m{call_id}"
Suffix(call_id) == "__m" \o ToString(call_id)

\* mapping.get(a, a)
Resolve(mapping, a) == DictGet(mapping, a, a)

\* new_map written with the arguments taken as they stand in the call, not
\* resolved through the caller's alias map
NewMap_unresolved(mapping, params, args, locals_list, suffix) ==
    LET P == {params[i] : i \in 1..Len(params)}
        L == {locals_list[i] : i \in 1..Len(locals_list)}
    IN [n \in P \cup L |->
           IF n \in L THEN n \o suffix
           ELSE args[Max({i \in 1..Len(params) : params[i] = n})]]

\* new_map of a macro call: {p: mapping.get(a, a) for p, a in zip(params, args)}
\* (a repeated parameter keeps its last argument), then every local -> local + suffix
NewMap(mapping, params, args, locals_list, suffix) ==
    LET P == {params[i] : i \in 1..Len(params)}
        L == {locals_list[i] : i \in 1..Len(locals_list)}
    IN [n \in P \cup L |->
           IF n \in L THEN n \o suffix
           ELSE Resolve(mapping, args[Max({i \in 1..Len(params) : params[i] = n})])]

\* the tail of step written with the snapshot saved before the step is counted
Counted_early(m) ==
    LET m1 == _save_snapshot(m, _peek_next_instr(m)) IN
    [m |-> [m1 EXCEPT !.step_count = @ + 1], raised |-> NoError, returned |-> TRUE]

\* the tail of step after a primitive or a macro call
Counted(m) ==
    LET m1 == [m EXCEPT !.step_count = @ + 1] IN
    [m |-> _save_snapshot(m1, _peek_next_instr(m1)), raised |-> NoError, returned |-> TRUE]

Raise(m, err) == [m |-> m, raised |-> err, returned |-> None]

\* the return of a frame written as a counted step
StepPop_counted(m) ==
    LET m1 == [m EXCEPT !.heap[m.stack].items = SubSeq(@, 1, Len(@) - 1),
                        !.step_count = @ + 1] IN
    [m |-> _save_snapshot(m1, _peek_next_instr(m1)),
     raised |-> NoError,
     returned |-> DepthOf(m1) > 0]

\* the return of a frame written as returning True like every other step
StepPop_true(m) ==
    LET m1 == [m EXCEPT !.heap[m.stack].items = SubSeq(@, 1, Len(@) - 1)] IN
    [m |-> _save_snapshot(m1, _peek_next_instr(m1)), raised |-> NoError, returned |-> TRUE]

\* finished frame: pop and save state
StepPop(m) ==
    LET m1 == [m EXCEPT !.heap[m.stack].items = SubSeq(@, 1, Len(@) - 1)] IN
    [m |-> _save_snapshot(m1, _peek_next_instr(m1)),
     raised |-> NoError,
     returned |-> DepthOf(m1) > 0]

StepInc(m, args) ==
    LET v == Resolve(TopOf(m).map, args[1])
        m1 == [m EXCEPT !.heap[m.vars].d = DictSet(@, v, DictGet(@, v, 0) + 1)]
    IN Counted([m1 EXCEPT !.heap[TopRef(m)].pc = @ + 1])

\* dec written without the floor at zero
StepDec_unfloored(m, args) ==
    LET v == Resolve(TopOf(m).map, args[1])
        m1 == [m EXCEPT !.heap[m.vars].d = DictSet(@, v, DictGet(@, v, 0) - 1)]
    IN Counted([m1 EXCEPT !.heap[TopRef(m)].pc = @ + 1])

StepDec(m, args) ==
    LET v == Resolve(TopOf(m).map, args[1])
        m1 == [m EXCEPT !.heap[m.vars].d = DictSet(@, v, Max({0, DictGet(@, v, 0) - 1}))]
    IN Counted([m1 EXCEPT !.heap[TopRef(m)].pc = @ + 1])

StepJnz(m, args) ==
    LET v == Resolve(TopOf(m).map, args[1])
        target == Resolve(TopOf(m).map, args[2])
    IN IF DictGet(VarsOf(m), v, 0) # 0
       THEN LET j == _jump(m, target) IN
            IF j.raised # NoError THEN Raise(j.m, j.raised) ELSE Counted(j.m)
       ELSE Counted([m EXCEPT !.heap[TopRef(m)].pc = @ + 1])

\* the macro-call branch written without the advance of the caller's pc
StepCall_unadvanced(m, op, args) ==
    LET mac == m.macros[op] IN
    IF Len(args) # Len(mac.params) THEN Raise(m, "ArityMismatch")
    ELSE
    LET call_id == m.call_ids
        suffix == Suffix(call_id)
        new_map == NewMap(TopOf(m).map, mac.params, args, mac.locals, suffix)
        rl == _resolve_labels(mac.code, suffix)
        m1 == [m EXCEPT !.call_ids = call_id + 1,
                        !.activations = Append(@, [macro |-> op, suffix |-> suffix,
                                                   locals |-> {new_map[mac.locals[i]] :
                                                                  i \in 1..Len(mac.locals)}])]
        n == NewId(m1.heap)
        m3 == [m1 EXCEPT !.heap = Store(@, n, _make_frame(rl.flat, rl.labels, new_map))]
    IN Counted([m3 EXCEPT !.heap[m.stack].items = Append(@, n)])

\* the macro-call branch written with the suffix drawn before the arity check
StepCall_eager(m, op, args) ==
    LET frame == TopRef(m)
        mac == m.macros[op]
        call_id == m.call_ids
        suffix == Suffix(call_id)
        m0 == [m EXCEPT !.call_ids = call_id + 1]
    IN
    IF Len(args) # Len(mac.params) THEN Raise(m0, "ArityMismatch")
    ELSE
    LET new_map == NewMap(TopOf(m).map, mac.params, args, mac.locals, suffix)
        rl == _resolve_labels(mac.code, suffix)
        m1 == [m0 EXCEPT !.activations = Append(@, [macro |-> op, suffix |-> suffix,
                                                    locals |-> {new_map[mac.locals[i]] :
                                                                   i \in 1..Len(mac.locals)}])]
        m2 == [m1 EXCEPT !.heap[frame].pc = @ + 1]
        n == NewId(m2.heap)
        m3 == [m2 EXCEPT !.heap = Store(@, n, _make_frame(rl.flat, rl.labels, new_map))]
    IN Counted([m3 EXCEPT !.heap[m.stack].items = Append(@, n)])

\* the macro-call branch of step; every activation is also noted in
\* m.activations, the record of the suffixes handed out in the machine's life
StepCall(m, op, args) ==
    LET frame == TopRef(m)
        mac == m.macros[op]
    IN
    IF Len(args) # Len(mac.params) THEN Raise(m, "ArityMismatch")
    ELSE
    LET call_id == m.call_ids
        suffix == Suffix(call_id)
        new_map == NewMap(TopOf(m).map, mac.params, args, mac.locals, suffix)
        rl == _resolve_labels(mac.code, suffix)
        m1 == [m EXCEPT !.call_ids = call_id + 1,
                        !.activations = Append(@, [macro |-> op, suffix |-> suffix,
                                                   locals |-> {new_map[mac.locals[i]] :
                                                                  i \in 1..Len(mac.locals)}])]
        m2 == [m1 EXCEPT !.heap[frame].pc = @ + 1]
        n == NewId(m2.heap)
        m3 == [m2 EXCEPT !.heap = Store(@, n, _make_frame(rl.flat, rl.labels, new_map))]
    IN Counted([m3 EXCEPT !.heap[m.stack].items = Append(@, n)])

step(m) ==
    IF DepthOf(m) = 0 THEN [m |-> m, raised |-> NoError, returned |-> FALSE]
    ELSE IF TopOf(m).pc >= Len(TopOf(m).code) THEN StepPop(m)
    ELSE
    LET instr == TopOf(m).code[TopOf(m).pc + 1]
        op == instr[1]
        args == Tail(instr)
    IN
    IF op = "inc" THEN StepInc(m, args)
    ELSE IF op = "dec" THEN StepDec(m, args)
    ELSE IF op = "jnz" THEN StepJnz(m, args)
    ELSE IF op \in DOMAIN m.macros THEN StepCall(m, op, args)
    ELSE Raise(m, "UnknownInstruction")

\* reset written as if it also restarted the suffix counter
reset_recount(m) ==
    IF _validate_inputs(m) # NoError THEN Raise(m, _validate_inputs(m))
    ELSE
    LET d == NewId(m.heap)
        copied == [k \in DOMAIN m.inputs |-> m.inputs[k].val]
        store == IF "y" \in DOMAIN copied THEN copied ELSE DictSet(copied, "y", 0)
        rl == _resolve_labels(m.program_src, "")
        m1 == [m EXCEPT !.heap = Store(Store(Store(@, d, DictObj(store)),
                                             d + 1, _make_frame(rl.flat, rl.labels, EmptyDict)),
                                       d + 2, ListObj(<<d + 1>>)),
                        !.vars = d,
                        !.program_flat = rl.flat,
                        !.program_labels = rl.labels,
                        !.stack = d + 2,
                        !.step_count = 0,
                        !.call_ids = 0,
                        !.history = <<>>]
    IN [m |-> _save_snapshot(m1, _peek_next_instr(m1)), raised |-> NoError, returned |-> None]

reset(m) ==
    IF _validate_inputs(m) # NoError THEN Raise(m, _validate_inputs(m))
    ELSE
    LET d == NewId(m.heap)
        copied == [k \in DOMAIN m.inputs |-> m.inputs[k].val]
        store == IF "y" \in DOMAIN copied THEN copied ELSE DictSet(copied, "y", 0)
        rl == _resolve_labels(m.program_src, "")
        m1 == [m EXCEPT !.heap = Store(Store(Store(@, d, DictObj(store)),
                                             d + 1, _make_frame(rl.flat, rl.labels, EmptyDict)),
                                       d + 2, ListObj(<<d + 1>>)),
                        !.vars = d,
                        !.program_flat = rl.flat,
                        !.program_labels = rl.labels,
                        !.stack = d + 2,
                        !.step_count = 0,
                        !.history = <<>>]
    IN [m |-> _save_snapshot(m1, _peek_next_instr(m1)), raised |-> NoError, returned |-> None]

\* the while loop of run
RECURSIVE RunLoop(_, _)
RunLoop(m, max_steps) ==
    IF DepthOf(m) > 0 /\ m.step_count < max_steps
    THEN LET s == step(m) IN
         IF s.raised # NoError THEN Raise(s.m, s.raised) ELSE RunLoop(s.m, max_steps)
    ELSE [m |-> m, raised |-> NoError, returned |-> None]

\* run written without the reset of a machine whose stack is empty
run_unreset(m, max_steps) ==
    LET w == RunLoop(m, max_steps) IN
    IF w.raised # NoError THEN w
    ELSE IF w.m.step_count >= max_steps THEN Raise(w.m, "StepLimitExceeded")
    ELSE [m |-> w.m, raised |-> NoError, returned |-> DictGet(VarsOf(w.m), "y", 0)]

\* run written with a reset at every call
run_restart(m, max_steps) ==
    LET r == reset(m) IN
    IF r.raised # NoError THEN r
    ELSE LET w == RunLoop(r.m, max_steps) IN
         IF w.raised # NoError THEN w
         ELSE IF w.m.step_count >= max_steps THEN Raise(w.m, "StepLimitExceeded")
         ELSE [m |-> w.m, raised |-> NoError, returned |-> DictGet(VarsOf(w.m), "y", 0)]

\* run written with the budget compared by > after the loop
run_lenient(m, max_steps) ==
    LET r == IF DepthOf(m) = 0 THEN reset(m) ELSE [m |-> m, raised |-> NoError, returned |-> None] IN
    IF r.raised # NoError THEN r
    ELSE LET w == RunLoop(r.m, max_steps) IN
         IF w.raised # NoError THEN w
         ELSE IF w.m.step_count > max_steps THEN Raise(w.m, "StepLimitExceeded")
         ELSE [m |-> w.m, raised |-> NoError, returned |-> DictGet(VarsOf(w.m), "y", 0)]

run(m, max_steps) ==
    LET r == IF DepthOf(m) = 0 THEN reset(m) ELSE [m |-> m, raised |-> NoError, returned |-> None] IN
    IF r.raised # NoError THEN r
    ELSE LET w == RunLoop(r.m, max_steps) IN
         IF w.raised # NoError THEN w
         ELSE IF w.m.step_count >= max_steps THEN Raise(w.m, "StepLimitExceeded")
         ELSE [m |-> w.m, raised |-> NoError, returned |-> DictGet(VarsOf(w.m), "y", 0)]

\* self.history[idx]: a Python index, so -1 is the last snapshot
PyIndexOk(seq, idx) == -Len(seq) <= idx /\ idx < Len(seq)

PyIndex(seq, idx) == IF idx >= 0 THEN seq[idx + 1] ELSE seq[Len(seq) + idx + 1]

\* rewind written without restoring the step counter
rewind_keepcount(m, idx) ==
    IF ~PyIndexOk(m.history, idx) THEN Raise(m, "IndexError")
    ELSE
    LET snap == PyIndex(m.history, idx)
        v == deepcopy(m.heap, snap.vars)
        s == deepcopy(v.heap, snap.stack)
    IN [m |-> [m EXCEPT !.heap = s.heap, !.vars = v.ref, !.stack = s.ref],
        raised |-> NoError, returned |-> None]

\* rewind written as cutting the history back to the snapshot it restores
rewind_truncating(m, idx) ==
    IF ~PyIndexOk(m.history, idx) THEN Raise(m, "IndexError")
    ELSE
    LET snap == PyIndex(m.history, idx)
        v == deepcopy(m.heap, snap.vars)
        s == deepcopy(v.heap, snap.stack)
    IN [m |-> [m EXCEPT !.heap = s.heap, !.vars = v.ref, !.stack = s.ref,
                        !.step_count = snap.step,
                        !.history = SubSeq(@, 1, IF idx >= 0 THEN idx + 1 ELSE Len(@) + idx + 1)],
        raised |-> NoError, returned |-> None]

rewind(m, idx) ==
    IF ~PyIndexOk(m.history, idx) THEN Raise(m, "IndexError")
    ELSE
    LET snap == PyIndex(m.history, idx)
        v == deepcopy(m.heap, snap.vars)
        s == deepcopy(v.heap, snap.stack)
    IN [m |-> [m EXCEPT !.heap = s.heap, !.vars = v.ref, !.stack = s.ref,
                        !.step_count = snap.step],
        raised |-> NoError, returned |-> None]

-----------------------------------------------------------------------------
(* Construction and editing *)

Macro(params, code, locals_) == [params |-> params, code |-> code, locals |-> locals_]

\* add_macro written without the test of the overwrite flag
add_macro_replacing(m, name, params, code, locals_, overwrite) ==
    IF name = "" THEN Raise(m, "ValueError")
    ELSE IF \E i \in 1..Len(code) : code[i] = <<>> THEN Raise(m, "ValueError")
    ELSE [m |-> [m EXCEPT !.macros = DictSet(@, name, Macro(params, code, locals_))],
          raised |-> NoError, returned |-> None]

add_macro(m, name, params, code, locals_, overwrite) ==
    IF name = "" THEN Raise(m, "ValueError")
    ELSE IF \E i \in 1..Len(code) : code[i] = <<>> THEN Raise(m, "ValueError")
    ELSE IF ~overwrite /\ name \in DOMAIN m.macros THEN Raise(m, "DuplicateMacro")
    ELSE [m |-> [m EXCEPT !.macros = DictSet(@, name, Macro(params, code, locals_))],
          raised |-> NoError, returned |-> None]

remove_macro(m, name) ==
    [m |-> [m EXCEPT !.macros = [n \in (DOMAIN @) \ {name} |-> @[n]]],
     raised |-> NoError, returned |-> None]

set_inputs(m, inp) == [m |-> [m EXCEPT !.inputs = inp], raised |-> NoError, returned |-> None]

set_program(m, instructions) ==
    [m |-> [m EXCEPT !.program_src = instructions], raised |-> NoError, returned |-> None]

\* SMachine(macros): the registry is filled by add_macro, everything else is empty
Constructed(registry) ==
    [macros |-> registry, inputs |-> EmptyDict, program_src |-> <<>>,
     program_flat |-> <<>>, program_labels |-> <<>>,
     vars |-> 1, stack |-> 2, call_ids |-> 0, step_count |-> 0, history |-> <<>>,
     heap |-> Store(Store(EmptyDict, 1, DictObj(EmptyDict)), 2, ListObj(<<>>)),
     activations |-> <<>>]

-----------------------------------------------------------------------------
(* Object ids are addresses: two heaps that differ only in the ids chosen,   *)
(* or in objects nothing refers to any more, are the same program state.     *)
(* Normalize drops the unreachable objects and renames each reachable one to *)
(* the place of its first occurrence in a fixed walk from self: self.vars,   *)
(* self.stack, its frames, then each snapshot's vars, stack and frames.      *)

RECURSIVE HistRefs(_, _)
HistRefs(m, i) ==
    IF i > Len(m.history) THEN <<>>
    ELSE <<m.history[i].vars, m.history[i].stack>>
         \o m.heap[m.history[i].stack].items \o HistRefs(m, i + 1)

Walk(m) == <<m.vars, m.stack>> \o ItemsOf(m) \o HistRefs(m, 1)

Normalize(m) ==
    LET walk == Walk(m)
        first == [o \in {walk[i] : i \in 1..Len(walk)} |->
                     Min({i \in 1..Len(walk) : walk[i] = o})]
        keep == {first[o] : o \in DOMAIN first}
    IN [m EXCEPT
          !.heap = [n \in keep |->
                       LET obj == m.heap[walk[n]] IN
                       IF obj.kind = "list"
                       THEN ListObj([i \in 1..Len(obj.items) |-> first[obj.items[i]]])
                       ELSE obj],
          !.vars = first[m.vars],
          !.stack = first[m.stack],
          !.history = [i \in 1..Len(m.history) |->
                          [m.history[i] EXCEPT !.vars = first[@], !.stack = first[@]]]]

-----------------------------------------------------------------------------
(* Bounds and the programs, macros and inputs the machine is driven with *)

\* a step or run is taken only while the history stays within MaxHist snapshots
MaxHist == 5

\* a macro call is taken only while the suffix counter stays within MaxCalls
MaxCalls == 2

\* run is called with max_steps in 0..MaxBudget
MaxBudget == 4

\* the driver rewinds the machine at most MaxRewinds times
MaxRewinds == 1

\* the driver of two executions constructs at most MaxMachines further machines
MaxMachines == 1

\* goto and zeros are the macros of example_ece664_macros; loop recurses
\* without end and writes a local in every activation; outer jumps through
\* goto to its own label A
Registry ==
    [n \in {"goto", "zeros", "loop", "outer"} |->
        CASE n = "goto" -> Macro(<<"label">>, << <<"inc", "_z">>, <<"jnz", "_z", "label">> >>, <<"_z">>)
          [] n = "zeros" -> Macro(<<"y">>, << <<"A:">>, <<"dec", "y">>, <<"jnz", "y", "A">> >>, <<>>)
          [] n = "loop" -> Macro(<<"x">>, << <<"inc", "_n">>, <<"loop", "x">> >>, <<"_n">>)
          [] n = "outer" -> Macro(<<>>, << <<"A:">>, <<"goto", "A">> >>, <<>>)]

Programs ==
    { << <<"inc", "x">>, <<"A:">>, <<"jnz", "x", "A">> >>,      \* never halts
      << <<"zeros", "x">>, <<"nop", "x">> >>,                   \* a call that returns, then an unknown instruction
      << <<"goto", "E">>, <<"inc", "y">>, <<"E:">> >>,          \* a jump out of a callee, then halt
      << <<"goto", "Q">> >>,                                    \* a label in no frame
      << <<"goto", "E">>, <<"E:">>, <<"zeros", "x", "y">> >>,   \* a call, then a wrong argument count
      << <<"loop", "y">> >>,                                    \* recursion
      << <<"A:">>, <<"outer">> >> }                             \* a label in two frames

InputSets ==
    { EmptyDict, [n \in {"x"} |-> PyInt(2)], [n \in {"x"} |-> PyInt(-1)],
      [n \in {"x"} |-> PyFloat(1)] }

-----------------------------------------------------------------------------
(* The machine's life: constructed with the registry, loaded by the driver  *)
(* before the first reset (as example.py does), then reset, stepped, run    *)
(* and rewound in any order.                                                *)

Called(call, arg, r) == [call |-> call, arg |-> arg, raised |-> r.raised, returned |-> r.returned]

Becomes(m) ==
    /\ macros' = m.macros
    /\ inputs' = m.inputs
    /\ program_src' = m.program_src
    /\ program_flat' = m.program_flat
    /\ program_labels' = m.program_labels
    /\ vars' = m.vars
    /\ stack' = m.stack
    /\ call_ids' = m.call_ids
    /\ step_count' = m.step_count
    /\ history' = m.history
    /\ heap' = m.heap
    /\ activations' = m.activations

\* utils.run_program has not been called
NoProgramRun ==
    [call |-> "none", program |-> <<>>, inputs |-> EmptyDict, max_steps |-> 0,
     raised |-> NoError, returned |-> None, steps |-> 0]

\* what the driver keeps of an execution seen through to the end: how it was
\* driven ("ran" by run(), "stepped" by a loop of step() until it returned
\* False), on which machine, the suffix counter at its reset, and its result
NoExecution ==
    [how |-> "none", machine |-> 0, start |-> 0, program |-> <<>>, inputs |-> EmptyDict,
     y |-> 0, store |-> EmptyDict]

WithinBounds(m) == Len(m.history) <= MaxHist /\ m.call_ids <= MaxCalls

Init ==
    /\ macros = Constructed(Registry).macros
    /\ inputs = Constructed(Registry).inputs
    /\ program_src = Constructed(Registry).program_src
    /\ program_flat = Constructed(Registry).program_flat
    /\ program_labels = Constructed(Registry).program_labels
    /\ vars = Constructed(Registry).vars
    /\ stack = Constructed(Registry).stack
    /\ call_ids = Constructed(Registry).call_ids
    /\ step_count = Constructed(Registry).step_count
    /\ history = Constructed(Registry).history
    /\ heap = Constructed(Registry).heap
    /\ activations = Constructed(Registry).activations
    /\ outcome = [call |-> "SMachine", arg |-> None, raised |-> NoError, returned |-> None]
    /\ rewinds = 0
    /\ trial = [machine |-> 0, mode |-> "none", start |-> 0, first |-> NoExecution]
    /\ utils_call_ids = 0
    /\ utils_outcome = NoProgramRun

\* the inputs are set before the first reset or once the machine has halted
CallSetInputs ==
    \E inp \in InputSets :
        /\ history = <<>> \/ DepthOf(Self) = 0
        /\ Becomes(Normalize(set_inputs(Self, inp).m))
        /\ outcome' = Called("set_inputs", None, set_inputs(Self, inp))
        /\ UNCHANGED rewinds

CallSetProgram ==
    \E prog \in Programs :
        /\ history = <<>>
        /\ Becomes(Normalize(set_program(Self, prog).m))
        /\ outcome' = Called("set_program", None, set_program(Self, prog))
        /\ UNCHANGED rewinds

CallReset ==
    LET r == reset(Self) IN
    /\ Becomes(Normalize(r.m))
    /\ outcome' = Called("reset", None, r)
    /\ UNCHANGED rewinds

CallStep ==
    LET r == step(Self) IN
    /\ WithinBounds(r.m)
    /\ Becomes(Normalize(r.m))
    /\ outcome' = Called("step", None, r)
    /\ UNCHANGED rewinds

CallRun ==
    \E max_steps \in 0..MaxBudget :
        LET r == run(Self, max_steps) IN
        /\ WithinBounds(r.m)
        /\ Becomes(Normalize(r.m))
        /\ outcome' = Called("run", max_steps, r)
        /\ UNCHANGED rewinds

CallRewind ==
    \E idx \in {-Len(history) - 1, -1} \cup (0..Len(history)) :
        LET r == rewind(Self, idx) IN
        /\ rewinds < MaxRewinds
        /\ Becomes(Normalize(r.m))
        /\ outcome' = Called("rewind", idx, r)
        /\ rewinds' = IF r.raised = NoError THEN rewinds + 1 ELSE rewinds

\* one machine driven through every call of its interface
SetInputs == CallSetInputs /\ UNCHANGED <<trial, utils_vars>>

SetProgram == CallSetProgram /\ UNCHANGED <<trial, utils_vars>>

Reset == CallReset /\ UNCHANGED <<trial, utils_vars>>

Step == CallStep /\ UNCHANGED <<trial, utils_vars>>

Run == CallRun /\ UNCHANGED <<trial, utils_vars>>

Rewind == CallRewind /\ UNCHANGED <<trial, utils_vars>>

Next == SetInputs \/ SetProgram \/ Reset \/ Step \/ Run \/ Rewind

Spec == Init /\ [][Next]_allvars

-----------------------------------------------------------------------------
(* The driver of example.py: it runs a program to the end with run(), or by  *)
(* a loop of step() until step() returns False, on one machine with reset()  *)
(* in between or on a newly constructed machine, and compares the results.   *)

\* the execution that has just come to its end, as the driver records it
Finished(how, start) ==
    [how |-> how, machine |-> trial.machine, start |-> start,
     program |-> program_src', inputs |-> inputs',
     y |-> DictGet(heap'[vars'].d, "y", 0), store |-> heap'[vars'].d]

Noted(how, start) ==
    [trial EXCEPT !.mode = how, !.start = start,
                  !.first = IF @.how = "none" /\ how \in {"ran", "stepped"}
                            THEN Finished(how, start) ELSE @]

\* vm = SMachine(): a new machine with the same macro registry
Construct ==
    /\ trial.machine < MaxMachines
    /\ Becomes(Constructed(Registry))
    /\ outcome' = [call |-> "SMachine", arg |-> None, raised |-> NoError, returned |-> None]
    /\ trial' = [trial EXCEPT !.machine = @ + 1, !.mode = "none", !.start = 0]
    /\ UNCHANGED <<rewinds, utils_vars>>

TrialSetInputs == CallSetInputs /\ trial' = [trial EXCEPT !.mode = "none"] /\ UNCHANGED utils_vars

TrialSetProgram == CallSetProgram /\ trial' = [trial EXCEPT !.mode = "none"] /\ UNCHANGED utils_vars

TrialReset ==
    /\ UNCHANGED utils_vars
    /\ CallReset
    /\ trial' = IF outcome'.raised = NoError THEN Noted("fresh", call_ids)
                ELSE Noted("none", trial.start)

\* one turn of "while vm.step(): pass", begun right after reset(); an execution
\* that raised is left as it is ("failed") until the next reset
TrialStep ==
    /\ UNCHANGED utils_vars
    /\ trial.mode \in {"fresh", "stepping"}
    /\ CallStep
    /\ trial' = IF outcome'.raised # NoError THEN Noted("failed", trial.start)
                ELSE Noted(IF outcome'.returned THEN "stepping" ELSE "stepped", trial.start)

\* vm.run() right after reset(), or on a halted or new machine, which run()
\* resets itself, or again after a run() that used up its budget ("limited");
\* a run that ends after such a resumption is "resumed"
TrialRun ==
    /\ UNCHANGED utils_vars
    /\ trial.mode \in {"fresh", "limited"} \/ DepthOf(Self) = 0
    /\ CallRun
    /\ trial' = LET start == IF DepthOf(Self) = 0 THEN call_ids ELSE trial.start IN
                IF outcome'.raised = "StepLimitExceeded" THEN Noted("limited", start)
                ELSE IF outcome'.raised # NoError THEN Noted("failed", start)
                ELSE IF trial.mode = "limited" /\ DepthOf(Self) > 0 THEN Noted("resumed", start)
                ELSE Noted("ran", start)

NextRun == Construct \/ TrialSetInputs \/ TrialSetProgram \/ TrialReset \/ TrialStep \/ TrialRun

SpecRun == Init /\ [][NextRun]_allvars

-----------------------------------------------------------------------------
(* What an observer reads: contents, not object ids *)

StackView(h, sref) == [i \in 1..Len(h[sref].items) |-> h[h[sref].items[i]]]

SnapView(h, snap) ==
    [step |-> snap.step, vars |-> h[snap.vars].d, stack |-> StackView(h, snap.stack),
     stack_depth |-> snap.stack_depth, next_instr |-> snap.next_instr]

HistView == [i \in 1..Len(history) |-> SnapView(heap, history[i])]

LiveVars == heap[vars].d

LiveStack == StackView(heap, stack)

IsPrefix(a, b) == Len(a) <= Len(b) /\ SubSeq(b, 1, Len(a)) = a

\* the call that led to this state was a step that executed (it did not raise
\* and was not the no-op of a halted machine)
Stepped == outcome.call = "step" /\ outcome.raised = NoError /\ outcome.returned # FALSE

-----------------------------------------------------------------------------
(* C1: over the machine's whole life no two macro activations receive the   *)
(* same suffix, and no two activations map a local to the same real name.   *)
C1_UniqueSuffixes ==
    \A i, j \in 1..Len(activations) :
        i # j => /\ activations[i].suffix # activations[j].suffix
                 /\ activations[i].locals \cap activations[j].locals = {}

\* two activations of the same macro with a local, one of them made after a rewind
C1_Witness ==
    /\ Len(activations) >= 2
    /\ activations[1].macro = activations[2].macro
    /\ activations[1].locals # {}
    /\ rewinds > 0

-----------------------------------------------------------------------------
(* The program of example.py, y = x1 + x2, on a machine constructed with the *)
(* example macros.                                                           *)

\* the inputs x1 and x2 range over 0..MaxArg
MaxArg == 1

\* run's default max_steps
DefaultMaxSteps == 100000

\* goto, zeros, equals and add of example_ece664_macros
ExampleMacros ==
    [n \in {"goto", "zeros", "equals", "add"} |->
        CASE n = "goto" -> Registry["goto"]
          [] n = "zeros" -> Registry["zeros"]
          [] n = "equals" ->
                Macro(<<"y", "x">>,
                      << <<"zeros", "y">>,
                         <<"A:">>, <<"jnz", "x", "B">>, <<"goto", "C">>,
                         <<"B:">>, <<"dec", "x">>, <<"inc", "y">>, <<"inc", "_z">>, <<"goto", "A">>,
                         <<"C:">>, <<"jnz", "_z", "D">>, <<"goto", "E">>,
                         <<"D:">>, <<"dec", "_z">>, <<"inc", "x">>, <<"goto", "C">>,
                         <<"E:">> >>,
                      <<"_z">>)
          [] n = "add" ->
                Macro(<<"y", "x1", "x2">>,
                      << <<"equals", "_y", "x1">>, <<"equals", "_z", "x2">>,
                         <<"B:">>, <<"jnz", "_z", "A">>, <<"goto", "E">>,
                         <<"A:">>, <<"dec", "_z">>, <<"inc", "_y">>, <<"goto", "B">>,
                         <<"E:">>, <<"equals", "y", "_y">> >>,
                      <<"_z", "_y">>)]

\* prog = [("add", "y", "x1", "x2")]
AddProgram == << <<"add", "y", "x1", "x2">> >>

\* vm = s.SMachine(s.example_ece664_macros)
InitAdd ==
    /\ macros = ExampleMacros
    /\ inputs = Constructed(ExampleMacros).inputs
    /\ program_src = Constructed(ExampleMacros).program_src
    /\ program_flat = Constructed(ExampleMacros).program_flat
    /\ program_labels = Constructed(ExampleMacros).program_labels
    /\ vars = Constructed(ExampleMacros).vars
    /\ stack = Constructed(ExampleMacros).stack
    /\ call_ids = Constructed(ExampleMacros).call_ids
    /\ step_count = Constructed(ExampleMacros).step_count
    /\ history = Constructed(ExampleMacros).history
    /\ heap = Constructed(ExampleMacros).heap
    /\ activations = Constructed(ExampleMacros).activations
    /\ outcome = [call |-> "SMachine", arg |-> None, raised |-> NoError, returned |-> None]
    /\ rewinds = 0
    /\ trial = [machine |-> 0, mode |-> "none", start |-> 0, first |-> NoExecution]
    /\ utils_call_ids = 0
    /\ utils_outcome = NoProgramRun

\* vm.set_inputs({"x1": a, "x2": b})
AddSetInputs ==
    \E a, b \in 0..MaxArg :
        LET r == set_inputs(Self, [n \in {"x1", "x2"} |-> IF n = "x1" THEN PyInt(a) ELSE PyInt(b)]) IN
        /\ inputs = EmptyDict /\ history = <<>>
        /\ Becomes(Normalize(r.m))
        /\ outcome' = Called("set_inputs", None, r)
        /\ UNCHANGED <<rewinds, trial, utils_vars>>

\* vm.set_program(prog)
AddSetProgram ==
    LET r == set_program(Self, AddProgram) IN
    /\ program_src = <<>> /\ history = <<>>
    /\ Becomes(Normalize(r.m))
    /\ outcome' = Called("set_program", None, r)
    /\ UNCHANGED <<rewinds, trial, utils_vars>>

Loaded == inputs # EmptyDict /\ program_src = AddProgram

\* vm.reset(), once inputs and program are loaded
AddReset ==
    LET r == reset(Self) IN
    /\ Loaded /\ history = <<>>
    /\ Becomes(Normalize(r.m))
    /\ outcome' = Called("reset", None, r)
    /\ UNCHANGED <<rewinds, trial, utils_vars>>

\* vm.step(), after the reset
AddStep ==
    LET r == step(Self) IN
    /\ Loaded /\ history # <<>>
    /\ Becomes(Normalize(r.m))
    /\ outcome' = Called("step", None, r)
    /\ UNCHANGED <<rewinds, trial, utils_vars>>

\* vm.run() with the default budget, on the loaded machine
AddRun ==
    LET r == run(Self, DefaultMaxSteps) IN
    /\ Loaded /\ history = <<>>
    /\ Becomes(Normalize(r.m))
    /\ outcome' = Called("run", DefaultMaxSteps, r)
    /\ UNCHANGED <<rewinds, trial, utils_vars>>

NextAdd == AddSetInputs \/ AddSetProgram \/ AddReset \/ AddStep \/ AddRun

SpecAdd == InitAdd /\ [][NextAdd]_allvars

-----------------------------------------------------------------------------
(* The macro registry edited through add_macro and remove_macro.             *)

\* the names and definitions the registry is edited with: two well-formed
\* definitions, and one each with a repeated parameter, a repeated local, a
\* name that is both parameter and local, and an empty body
MacroNames == {"", "m", "goto"}

MacroDefs ==
    { Macro(<<"a">>, << <<"inc", "a">> >>, <<"t">>),
      Macro(<<>>, << <<"inc", "y">> >>, <<>>),
      Macro(<<"a", "a">>, << <<"inc", "a">> >>, <<>>),
      Macro(<<"a">>, << <<"inc", "a">> >>, <<"t", "t">>),
      Macro(<<"a">>, << <<"inc", "a">> >>, <<"a">>),
      Macro(<<"a">>, <<>>, <<"t">>) }

AddMacro ==
    \E name \in MacroNames, def \in MacroDefs, overwrite \in BOOLEAN :
        LET r == add_macro(Self, name, def.params, def.code, def.locals, overwrite) IN
        /\ Becomes(r.m)
        /\ outcome' = Called("add_macro",
                             [name |-> name, def |-> def, overwrite |-> overwrite], r)
        /\ UNCHANGED <<rewinds, trial, utils_vars>>

RemoveMacro ==
    \E name \in MacroNames :
        LET r == remove_macro(Self, name) IN
        /\ Becomes(r.m)
        /\ outcome' = Called("remove_macro", [name |-> name], r)
        /\ UNCHANGED <<rewinds, trial, utils_vars>>

NextRegistry == AddMacro \/ RemoveMacro

SpecRegistry == Init /\ [][NextRegistry]_allvars

-----------------------------------------------------------------------------
\* the call replaces the history: a reset, or a run on an empty stack (which resets)
Restarts == outcome'.call = "reset" \/ (outcome'.call = "run" /\ DepthOf(Self) = 0)

(* C2: between two resets the history is append-only and its entries are    *)
(* immutable: every call that does not reset keeps every stored snapshot    *)
(* (step counter, variable store, call stack) as it was, a successful step  *)
(* of a running machine appends exactly one snapshot, and a rewind or a     *)
(* failed step appends none.                                                *)
C2_HistoryAppendOnly ==
    [][ ~Restarts =>
          /\ IsPrefix(HistView, HistView')
          /\ (outcome'.call = "step" /\ outcome'.raised = NoError /\ DepthOf(Self) > 0
                => Len(history') = Len(history) + 1)
          /\ (outcome'.call = "rewind" => Len(history') = Len(history))
          /\ (outcome'.call = "step" /\ outcome'.raised # NoError
                => Len(history') = Len(history)) ]_allvars

\* the live machine was rewound and has been stepped on since
C2_Witness == rewinds > 0 /\ Stepped /\ Len(history) >= 4

(* C3: right after rewind(i) with 0 <= i < len(history) the live machine is *)
(* snapshot i: step counter, variable store, stack depth, every frame and   *)
(* the next instruction.                                                    *)
C3_RewindRestores ==
    outcome.call = "rewind" /\ outcome.raised = NoError /\ outcome.arg >= 0 =>
        LET snap == SnapView(heap, history[outcome.arg + 1]) IN
        /\ step_count = snap.step
        /\ LiveVars = snap.vars
        /\ LiveStack = snap.stack
        /\ DepthOf(Self) = snap.stack_depth
        /\ _peek_next_instr(Self) = snap.next_instr

\* a rewind to a snapshot in the middle of the history, away from the start
C3_Witness ==
    /\ outcome.call = "rewind" /\ outcome.raised = NoError
    /\ outcome.arg > 0 /\ outcome.arg + 1 < Len(history)
    /\ DepthOf(Self) > 1

Untouched ==
    /\ LiveVars' = LiveVars
    /\ LiveStack' = LiveStack
    /\ step_count' = step_count
    /\ HistView' = HistView

(* C4: a step that raises UnknownInstruction or LabelNotFound leaves the    *)
(* variable store, every frame, the step counter and the history as they    *)
(* were.                                                                    *)
C4_FailedStepChangesNothing ==
    [][ outcome'.call = "step" /\ outcome'.raised \in {"UnknownInstruction", "LabelNotFound"}
          => Untouched ]_allvars

\* a jump from inside a callee to a label no frame holds
C4_Witness == outcome.call = "step" /\ outcome.raised = "LabelNotFound" /\ DepthOf(Self) = 2

(* C5: a macro call with the wrong number of arguments raises ArityMismatch *)
(* before any mutation: store, frames, step counter, history and the suffix *)
(* counter are unchanged.                                                   *)
C5_ArityMismatchChangesNothing ==
    [][ outcome'.call = "step" /\ outcome'.raised = "ArityMismatch"
          => Untouched /\ call_ids' = call_ids /\ activations' = activations ]_allvars

\* the failed call came after a call that did consume a suffix
C5_Witness == outcome.call = "step" /\ outcome.raised = "ArityMismatch" /\ call_ids > 0

NonNegative(d) == \A n \in DOMAIN d : d[n] \in Nat

\* the next instruction is a dec of a variable that is 0 or unset
DecAtZero ==
    /\ _peek_next_instr(Self) # None
    /\ _peek_next_instr(Self)[1] = "dec"
    /\ DictGet(LiveVars, Resolve(TopOf(Self).map, _peek_next_instr(Self)[2]), 0) = 0

(* C6: every value of the variable store, live and in every snapshot, is a  *)
(* non-negative integer, and a dec of a variable that is 0 or unset leaves  *)
(* it at 0 without an error.                                                *)
C6_NonNegative ==
    /\ [](NonNegative(LiveVars) /\ \A i \in 1..Len(history) : NonNegative(HistView[i].vars))
    /\ [][ DecAtZero /\ outcome'.call = "step"
             => /\ outcome'.raised = NoError
                /\ LiveVars'[Resolve(TopOf(Self).map, _peek_next_instr(Self)[2])] = 0 ]_allvars

\* a dec has just been executed on a variable the inputs never set
C6_Witness ==
    /\ Stepped /\ Len(history) >= 2
    /\ history[Len(history) - 1].next_instr = <<"dec", "y">>
    /\ history[Len(history) - 1].step + 1 = step_count
    /\ "x" \notin DOMAIN inputs /\ "x" \in DOMAIN LiveVars /\ LiveVars["x"] = 0

\* the next instruction is a jnz whose variable is non-zero
FiringJnz ==
    /\ _peek_next_instr(Self) # None
    /\ _peek_next_instr(Self)[1] = "jnz"
    /\ DictGet(LiveVars, Resolve(TopOf(Self).map, _peek_next_instr(Self)[2]), 0) # 0

JnzTarget == Resolve(TopOf(Self).map, _peek_next_instr(Self)[3])

HoldsLabel(fr, T) ==
    \E i \in 1..Len(fr.labels) : fr.labels[i][1] = T \/ StartsWith(fr.labels[i][1], T \o "__")

\* where the label may lead: the exact key's index or, failing that, a prefixed key's
Landings(fr, T) ==
    IF \E i \in 1..Len(fr.labels) : fr.labels[i][1] = T
    THEN {fr.labels[i][2] : i \in {k \in 1..Len(fr.labels) : fr.labels[k][1] = T}}
    ELSE {fr.labels[i][2] : i \in {k \in 1..Len(fr.labels) : StartsWith(fr.labels[k][1], T \o "__")}}

(* C7: a jnz that fires with resolved target T goes to the innermost frame  *)
(* holding T exactly or, failing that, a key beginning with T + "__": the   *)
(* frames above it are discarded, its pc becomes the label's index, the     *)
(* frames below it and the variable store are unchanged.                    *)
C7_JumpToInnermost ==
    [][ FiringJnz /\ Stepped' =>
          LET d == Max({k \in 1..Len(LiveStack) : HoldsLabel(LiveStack[k], JnzTarget)}) IN
          /\ Len(LiveStack') = d
          /\ \A k \in 1..(d - 1) : LiveStack'[k] = LiveStack[k]
          /\ \E p \in Landings(LiveStack[d], JnzTarget) :
                LiveStack'[d] = [LiveStack[d] EXCEPT !.pc = p]
          /\ LiveVars' = LiveVars ]_allvars

\* a jump from a callee two frames up the stack into its caller, above the root
C7_Witness ==
    /\ Stepped /\ Len(history) >= 2
    /\ history[Len(history) - 1].next_instr # None
    /\ history[Len(history) - 1].next_instr[1] = "jnz"
    /\ history[Len(history) - 1].step + 1 = step_count
    /\ history[Len(history) - 1].stack_depth = 3
    /\ DepthOf(Self) = 2

\* programs of the catalog that never halt: a self-jump on a variable that stays
\* non-zero, a recursion without end, and a jump back through a macro
NeverHalts(prog) ==
    prog \in { << <<"inc", "x">>, <<"A:">>, <<"jnz", "x", "A">> >>,
               << <<"loop", "y">> >>,
               << <<"A:">>, <<"outer">> >> }

\* run() starts from reset: it is called right after a reset, or on a machine
\* with an empty stack, which it resets itself
FromReset ==
    /\ _validate_inputs(Self) = NoError
    /\ \/ DepthOf(Self) = 0
       \/ outcome.call = "reset" /\ outcome.raised = NoError

(* C8: for a program that never halts and any max_steps >= 0, run(max_steps) *)
(* started from reset raises StepLimitExceeded with the step counter equal   *)
(* to max_steps.                                                             *)
C8_BudgetExact ==
    [][ FromReset /\ NeverHalts(program_src) /\ outcome'.call = "run"
          => /\ outcome'.raised = "StepLimitExceeded"
             /\ step_count' = outcome'.arg ]_allvars

\* the self-jump has used up the largest budget: one snapshot per step
C8_Witness ==
    /\ outcome.call = "run" /\ outcome.raised = "StepLimitExceeded"
    /\ program_src = << <<"inc", "x">>, <<"A:">>, <<"jnz", "x", "A">> >>
    /\ outcome.arg = MaxBudget /\ step_count = MaxBudget
    /\ Len(history) = MaxBudget + 1

(* C9: run raises StepLimitExceeded only with a non-empty call stack, and    *)
(* returns the value of y only with an empty one.                            *)
C9_RaisesOnlyWhileRunning ==
    outcome.call = "run" =>
        /\ outcome.raised = "StepLimitExceeded" => DepthOf(Self) > 0
        /\ outcome.raised = NoError =>
              DepthOf(Self) = 0 /\ outcome.returned = DictGet(LiveVars, "y", 0)

\* the budget ran out when only the return of the root frame was left
C9_Witness ==
    /\ outcome.call = "run" /\ outcome.raised = "StepLimitExceeded"
    /\ DepthOf(Self) = 1 /\ _peek_next_instr(Self) = None
    /\ step_count > 0

\* a real name made for a macro local: it holds the suffix mark "__m"
IsLocalName(n) == \E i \in 1..(Len(n) - 2) : SubSeq(n, i, i + 2) = "__m"

Plain(store) == [n \in {k \in DOMAIN store : ~IsLocalName(k)} |-> store[n]]

\* an execution has just ended, and the driver holds the result of one of the
\* other kind for the same program and inputs
Comparable ==
    /\ trial.mode \in {"ran", "stepped"}
    /\ trial.first.how \notin {"none", trial.mode}
    /\ trial.first.program = program_src
    /\ trial.first.inputs = inputs

C10_Original ==
    Comparable =>
        /\ DictGet(LiveVars, "y", 0) = trial.first.y
        /\ LiveVars = trial.first.store

(* C10: for the same program, inputs and registry, run() from a fresh reset  *)
(* and a loop of step() from a fresh reset end with the same y; with the     *)
(* same final store when the suffix counter stood at the same value at both  *)
(* resets, as on two newly constructed machines; and, on one machine with    *)
(* reset() in between, with the same value for every variable that is not a  *)
(* macro local.                                                              *)
C10_RunEqualsStepLoop ==
    Comparable =>
        /\ DictGet(LiveVars, "y", 0) = trial.first.y
        /\ trial.start = trial.first.start => LiveVars = trial.first.store
        /\ Plain(LiveVars) = Plain(trial.first.store)

\* the same machine, reset between the two executions, ends with another store
C10_Witness ==
    /\ Comparable
    /\ trial.machine = trial.first.machine
    /\ LiveVars # trial.first.store

(* C11: step returns True exactly when the call stack is non-empty after    *)
(* the step and False exactly when it is empty; on a machine whose stack is  *)
(* already empty it returns False and changes nothing: no variable, no step  *)
(* counter, no snapshot.                                                     *)
C11_StepTellsRunning ==
    /\ [](outcome.call = "step" /\ outcome.raised = NoError
            => outcome.returned = (DepthOf(Self) > 0))
    /\ [][ DepthOf(Self) = 0 /\ outcome'.call = "step"
             => /\ outcome'.raised = NoError /\ outcome'.returned = FALSE
                /\ Untouched
                /\ DepthOf(Self') = 0 /\ call_ids' = call_ids ]_allvars

\* step has been called on a machine that never had a frame
C11_Witness ==
    /\ outcome.call = "step" /\ outcome.returned = FALSE
    /\ history = <<>> /\ program_src # <<>>

\* the claim as stated: a rewind succeeds only for 0 <= index < len(history)
C12_RewindOnlyInRange ==
    outcome.call = "rewind" /\ outcome.raised = NoError
        => 0 <= outcome.arg /\ outcome.arg < Len(history)

\* the snapshot that a step leaves at the end of the history: the live state
LiveSnapshot ==
    [step |-> step_count, vars |-> LiveVars, stack |-> LiveStack,
     stack_depth |-> DepthOf(Self), next_instr |-> _peek_next_instr(Self)]

(* C13: rewind changes only the live variable store, call stack and step     *)
(* counter: registry, program, inputs, suffix counter and the whole history  *)
(* (entries after the index too) stay as they were, and the next successful  *)
(* step appends its snapshot at the end of the history.                      *)
C13_RewindFrame ==
    [][ /\ outcome'.call = "rewind"
          => /\ macros' = macros /\ inputs' = inputs
             /\ program_src' = program_src /\ program_flat' = program_flat
             /\ program_labels' = program_labels
             /\ call_ids' = call_ids /\ activations' = activations
             /\ HistView' = HistView
        /\ outcome.call = "rewind" /\ outcome.raised = NoError
           /\ outcome'.call = "step" /\ outcome'.raised = NoError /\ DepthOf(Self) > 0
          => HistView' = Append(HistView, LiveSnapshot') ]_allvars

\* a step taken after a rewind of two or more steps: its snapshot stands at the
\* end of the history, after the snapshots of the steps rewound over
C13_Witness ==
    /\ Stepped /\ rewinds > 0 /\ Len(history) >= 3
    /\ history[Len(history)].step < history[Len(history) - 1].step

\* an input is valid when it is a non-negative integer
ValidInputs == \A k \in DOMAIN inputs : inputs[k].type = "int" /\ inputs[k].val >= 0

\* the inputs plus y = 0
InputsPlusY ==
    [k \in DOMAIN inputs \cup {"y"} |-> IF k \in DOMAIN inputs THEN inputs[k].val ELSE 0]

IsInstruction(instr) == ~EndsWith(instr[1], ":")

(* C14: reset with valid inputs leaves the variable store = the inputs plus  *)
(* y = 0, one root frame at pc 0 with an empty alias map, step counter 0 and *)
(* a history of exactly one snapshot of that state; no later step, run or    *)
(* rewind changes history[0], and rewind(0) restores its store with stack    *)
(* depth 1.  reset with a negative or non-integer input raises InvalidInput  *)
(* and leaves store, stack, step counter and history unchanged.              *)
C14_ResetContract ==
    /\ [][ outcome'.call = "reset" /\ ValidInputs
             => /\ outcome'.raised = NoError
                /\ LiveVars' = InputsPlusY
                /\ Len(LiveStack') = 1
                /\ LiveStack'[1].pc = 0 /\ LiveStack'[1].map = EmptyDict
                /\ LiveStack'[1].code = SelectSeq(program_src, IsInstruction)
                /\ step_count' = 0
                /\ HistView' = <<LiveSnapshot'>> ]_allvars
    /\ [][ outcome'.call = "reset" /\ ~ValidInputs
             => /\ outcome'.raised = "InvalidInput"
                /\ Untouched /\ DepthOf(Self') = DepthOf(Self) ]_allvars
    /\ [][ history # <<>> /\ ~Restarts => HistView'[1] = HistView[1] ]_allvars
    /\ [](outcome.call = "rewind" /\ outcome.raised = NoError /\ outcome.arg = 0
            => /\ LiveVars = HistView[1].vars
               /\ DepthOf(Self) = 1 /\ LiveStack = HistView[1].stack
               /\ step_count = 0)

\* a reset refused for a non-integer input on a machine that has run before
C14_Witness ==
    /\ outcome.call = "reset" /\ outcome.raised = "InvalidInput"
    /\ \E k \in DOMAIN inputs : inputs[k].type = "float"
    /\ Len(history) > 1 /\ "x" \in DOMAIN LiveVars

\* the machine as the last reset left it, rebuilt from history[0] and the
\* value the suffix counter had at that reset
AtReset ==
    [rewind(Self, 0).m EXCEPT !.history = SubSeq(@, 1, 1), !.call_ids = trial.start]

\* what a single run(max_steps) started from that reset ends with
SingleRun(max_steps) ==
    LET r == run(AtReset, max_steps) IN
    [raised |-> r.raised, returned |-> r.returned, step_count |-> r.m.step_count,
     vars |-> VarsOf(r.m), stack |-> StackView(r.m.heap, r.m.stack),
     history |-> [i \in 1..Len(r.m.history) |-> SnapView(r.m.heap, r.m.history[i])],
     call_ids |-> r.m.call_ids]

(* C15: after run(m1) has raised StepLimitExceeded, run(m2) with m2 > m1 on  *)
(* the same machine goes on from the live state without a reset and ends as  *)
(* a single run(m2) started from the reset does: the same error or the same  *)
(* y, and, when it returns or when the machine had not yet taken more than   *)
(* m2 steps, the same variable store, stack, step counter and history; the   *)
(* history recorded before the failure is kept, and every index of it can    *)
(* be rewound to.                                                            *)
C15_ResumeAfterLimit ==
    /\ [][ trial.mode = "limited" /\ outcome'.call = "run" /\ outcome'.arg > outcome.arg
             => LET single == SingleRun(outcome'.arg) IN
                /\ outcome'.raised = single.raised
                /\ outcome'.returned = single.returned
                /\ IsPrefix(HistView, HistView')
                /\ outcome'.raised = NoError \/ step_count <= outcome'.arg
                     => /\ LiveVars' = single.vars
                        /\ LiveStack' = single.stack
                        /\ step_count' = single.step_count
                        /\ HistView' = single.history
                        /\ call_ids' = single.call_ids ]_allvars
    /\ [](trial.mode = "limited"
            => \A i \in 0..(Len(history) - 1) :
                  /\ rewind(Self, i).raised = NoError
                  /\ VarsOf(rewind(Self, i).m) = HistView[i + 1].vars)

\* a run that used up its budget inside a macro call has been resumed to the end
C15_Witness ==
    /\ trial.mode = "resumed" /\ outcome.call = "run" /\ outcome.raised = NoError
    /\ call_ids > trial.start /\ Len(history) > 3

Names(seq) == {seq[i] : i \in 1..Len(seq)}

Distinct(seq) == Cardinality(Names(seq)) = Len(seq)

\* what the registry's validation asks of a registration
WellFormed(name, def) ==
    /\ name # ""
    /\ Distinct(def.params) /\ Distinct(def.locals)
    /\ Names(def.params) \cap Names(def.locals) = {}
    /\ def.code # <<>>

\* the claim as stated: a registration that is not well-formed is rejected
C17_RejectsMalformed ==
    outcome.call = "add_macro" /\ ~WellFormed(outcome.arg.name, outcome.arg.def)
        => outcome.raised # NoError

(* C18: add_macro with overwrite = False on a registered name raises         *)
(* DuplicateMacro and leaves the registry, that name's definition included,  *)
(* unchanged; with overwrite allowed, or on an absent name, a well-formed    *)
(* registration leaves the registry mapping the name to the new definition   *)
(* and every other entry unchanged.                                          *)
C18_OverwriteFlag ==
    [][ outcome'.call = "add_macro" =>
          LET a == outcome'.arg IN
          /\ ~a.overwrite /\ a.name \in DOMAIN macros
               => outcome'.raised = "DuplicateMacro" /\ macros' = macros
          /\ (a.overwrite \/ a.name \notin DOMAIN macros) /\ WellFormed(a.name, a.def)
               => /\ outcome'.raised = NoError
                  /\ DOMAIN macros' = DOMAIN macros \cup {a.name}
                  /\ macros'[a.name] = a.def
                  /\ \A n \in DOMAIN macros \ {a.name} : macros'[n] = macros[n] ]_allvars

\* a registration refused for a name that holds a definition registered earlier
C18_Witness ==
    /\ outcome.call = "add_macro" /\ outcome.raised = "DuplicateMacro"
    /\ outcome.arg.name = "m" /\ macros["m"] # outcome.arg.def
    /\ macros["goto"] # Registry["goto"]

\* the next instruction is a call of a registered macro with as many arguments
\* as the macro has parameters
CallingMacro ==
    /\ _peek_next_instr(Self) # None
    /\ _peek_next_instr(Self)[1] \notin {"inc", "dec", "jnz"}
    /\ _peek_next_instr(Self)[1] \in DOMAIN macros
    /\ Len(_peek_next_instr(Self)) - 1 = Len(macros[_peek_next_instr(Self)[1]].params)

(* C19: a macro call with the right number of arguments advances the         *)
(* caller's pc by one and pushes one new frame at pc 0 on top of the caller; *)
(* the variable store and all other frames are unchanged; the new frame's    *)
(* alias map sends each formal parameter to the real name its argument has   *)
(* under the caller's alias map and each local to the local name followed by *)
(* the suffix of this activation.                                            *)
C19_CallFrame ==
    [][ CallingMacro /\ outcome'.call = "step" =>
          LET d == Len(LiveStack)
              caller == LiveStack[d]
              args == Tail(_peek_next_instr(Self))
              mac == macros[_peek_next_instr(Self)[1]]
              new == LiveStack'[d + 1]
          IN
          /\ outcome'.raised = NoError
          /\ Len(LiveStack') = d + 1
          /\ \A k \in 1..(d - 1) : LiveStack'[k] = LiveStack[k]
          /\ LiveStack'[d] = [caller EXCEPT !.pc = @ + 1]
          /\ new.pc = 0
          /\ new.code = SelectSeq(mac.code, IsInstruction)
          /\ LiveVars' = LiveVars
          /\ DOMAIN new.map = Names(mac.params) \cup Names(mac.locals)
          /\ \A i \in 1..Len(mac.params) :
                new.map[mac.params[i]] =
                    IF args[i] \in DOMAIN caller.map THEN caller.map[args[i]] ELSE args[i]
          /\ \A i \in 1..Len(mac.locals) :
                new.map[mac.locals[i]] = mac.locals[i] \o "__m" \o ToString(call_ids) ]_allvars

\* a call made inside a macro with the macro's own formal parameter as argument:
\* the callee's parameter stands for the variable of the outermost call
C19_Witness ==
    /\ Stepped /\ DepthOf(Self) = 3
    /\ LiveStack[3].pc = 0 /\ LiveStack[2].map["x"] = "y" /\ LiveStack[3].map["x"] = "y"

\* the active frame has run to the end of its code
AtReturn == DepthOf(Self) > 0 /\ TopOf(Self).pc >= Len(TopOf(Self).code)

(* C20: when the active frame's pc is at or past the end of its code, step   *)
(* removes exactly that frame: the variable store, the step counter and      *)
(* every remaining frame are unchanged; the stack becomes empty exactly when *)
(* the removed frame was the root frame, and no step other than such a       *)
(* return empties the stack.                                                 *)
C20_FrameReturn ==
    [][ outcome'.call = "step" /\ DepthOf(Self) > 0 =>
          /\ AtReturn => /\ outcome'.raised = NoError
                         /\ LiveStack' = SubSeq(LiveStack, 1, Len(LiveStack) - 1)
                         /\ LiveVars' = LiveVars
                         /\ step_count' = step_count
                         /\ (DepthOf(Self') = 0) = (DepthOf(Self) = 1)
          /\ DepthOf(Self') = 0 => AtReturn /\ DepthOf(Self) = 1 ]_allvars

\* a callee has returned to its caller, which goes on
C20_Witness ==
    /\ Stepped /\ Len(history) >= 2
    /\ history[Len(history) - 1].stack_depth = 2
    /\ history[Len(history) - 1].next_instr = None
    /\ history[Len(history) - 1].step = step_count
    /\ DepthOf(Self) = 1 /\ _peek_next_instr(Self) # None

\* the machine has halted with y = x1 + x2 and x1, x2 as they were put in
AddDone ==
    /\ history # <<>> /\ DepthOf(Self) = 0
    /\ LiveVars["y"] = inputs["x1"].val + inputs["x2"].val
    /\ LiveVars["x1"] = inputs["x1"].val
    /\ LiveVars["x2"] = inputs["x2"].val

\* the calls of step that bring add to its end on these inputs, each of which
\* appends one snapshot to the one reset saved
AddCalls == 49 + 26 * inputs["x1"].val + 32 * inputs["x2"].val

(* C16: for all inputs x1, x2 in 0..MaxArg the program add y x1 x2 with the  *)
(* example macros halts and yields the sum: run() raises nothing and returns *)
(* x1 + x2; no step raises; a machine still running has been stepped fewer   *)
(* than AddCalls times, so the step loop ends; and a machine with an empty   *)
(* call stack has y = x1 + x2 and x1, x2 at their input values.              *)
C16_AddHalts ==
    /\ outcome.call = "run" => /\ outcome.raised = NoError
                               /\ outcome.returned = inputs["x1"].val + inputs["x2"].val
    /\ outcome.call = "step" => outcome.raised = NoError
    /\ history # <<>> /\ DepthOf(Self) > 0 => Len(history) - 1 < AddCalls
    /\ history # <<>> /\ DepthOf(Self) = 0 => AddDone

\* the step loop has brought add to its end for the largest inputs
C16_Witness ==
    /\ AddDone /\ outcome.call = "step"
    /\ inputs["x1"].val = MaxArg /\ inputs["x2"].val = MaxArg
    /\ LiveVars["y"] = 2 * MaxArg

\* no input, and no variable or label named in the program or in a macro body,
\* is named like a suffixed local
NoClash ==
    /\ \A k \in DOMAIN inputs : ~IsLocalName(k)
    /\ \A i \in 1..Len(program_src) : \A j \in 1..Len(program_src[i]) :
          ~IsLocalName(program_src[i][j])
    /\ \A n \in DOMAIN macros : \A i \in 1..Len(macros[n].code) :
          \A j \in 1..Len(macros[n].code[i]) : ~IsLocalName(macros[n].code[i][j])

(* C21: when a step executes a macro call and pushes the callee's frame, the *)
(* real name of every local of that activation is absent from the variable   *)
(* store, so that the local reads as 0; this holds after reset and after a   *)
(* rewind followed by further steps as well, provided no input and no name   *)
(* in the program or the macro bodies is named like a suffixed local.        *)
C21_LocalsStartAbsent ==
    [][ CallingMacro /\ outcome'.call = "step" /\ NoClash =>
          LET mac == macros[_peek_next_instr(Self)[1]]
              new == LiveStack'[Len(LiveStack')]
          IN
          /\ outcome'.raised = NoError
          /\ Len(LiveStack') = Len(LiveStack) + 1
          /\ \A i \in 1..Len(mac.locals) :
                /\ new.map[mac.locals[i]] \notin DOMAIN LiveVars'
                /\ DictGet(LiveVars', new.map[mac.locals[i]], 0) = 0 ]_allvars

\* a macro with a local has been called again after a rewind, while the store
\* restored by the rewind holds the local of an earlier activation
C21_Witness ==
    /\ Stepped /\ rewinds = 1 /\ DepthOf(Self) >= 2 /\ TopOf(Self).pc = 0
    /\ NoClash
    /\ \E n \in DOMAIN LiveVars : IsLocalName(n)
    /\ \E l \in DOMAIN TopOf(Self).map :
          IsLocalName(TopOf(Self).map[l]) /\ TopOf(Self).map[l] \notin DOMAIN LiveVars

\* the errors a step raises
InstructionErrors == {"UnknownInstruction", "ArityMismatch", "LabelNotFound"}

\* run resets the machine first: its stack is empty
RunResets == DepthOf(Self) = 0

\* the step counter, the stack depth and the history length run's loop starts from
RunStartCount == IF RunResets THEN 0 ELSE step_count

RunStartDepth == IF RunResets THEN 1 ELSE DepthOf(Self)

RunStartHist == IF RunResets THEN 1 ELSE Len(history)

\* the original wording of C22: run ends in one of three ways, a return on
\* halt, an instruction error, or StepLimitExceeded
C22_Original ==
    outcome.call = "run" => outcome.raised \in {NoError, "StepLimitExceeded"} \cup InstructionErrors

(* C22: run(max_steps) ends in one of four ways.  On a machine with an empty *)
(* stack and invalid inputs it raises InvalidInput from its reset and        *)
(* executes nothing.  Otherwise it returns y with the stack empty, or raises *)
(* an instruction error with the stack non-empty and the counter below       *)
(* max_steps, or raises StepLimitExceeded with the counter at or above       *)
(* max_steps; it has then executed at most max_steps counted steps, no more  *)
(* than the budget left at its start, and at most as many frame returns as   *)
(* there were frames at its start plus counted steps.  On every step, a      *)
(* step that does not count removes exactly one frame and the stack grows    *)
(* only on a counted step, by one frame.                                     *)
C22_RunTerminates ==
    [][ /\ outcome'.call = "run" =>
             LET max_steps == outcome'.arg
                 counted == step_count' - RunStartCount
                 calls == Len(history') - RunStartHist
                 returns == calls - counted
             IN
             IF RunResets /\ _validate_inputs(Self) # NoError
             THEN outcome'.raised = "InvalidInput" /\ Untouched
             ELSE
             /\ outcome'.raised \in {NoError, "StepLimitExceeded"} \cup InstructionErrors
             /\ outcome'.raised = NoError => DepthOf(Self)' = 0
             /\ outcome'.raised \in InstructionErrors =>
                   DepthOf(Self)' > 0 /\ step_count' < max_steps
             /\ outcome'.raised = "StepLimitExceeded" => step_count' >= max_steps
             /\ 0 <= counted /\ counted <= max_steps
             /\ counted <= Max({0, max_steps - RunStartCount})
             /\ 0 <= returns /\ returns <= RunStartDepth + counted
        /\ outcome'.call = "step" /\ outcome'.raised = NoError /\ DepthOf(Self) > 0 =>
             /\ step_count' \in {step_count, step_count + 1}
             /\ step_count' = step_count => DepthOf(Self)' = DepthOf(Self) - 1
             /\ DepthOf(Self)' > DepthOf(Self) =>
                   step_count' = step_count + 1 /\ DepthOf(Self)' = DepthOf(Self) + 1
      ]_allvars

\* a run with the largest budget has made calls, returned from a frame and
\* come to the halt
C22_Witness ==
    /\ outcome.call = "run" /\ outcome.raised = NoError /\ outcome.arg = MaxBudget
    /\ DepthOf(Self) = 0
    /\ step_count >= 3 /\ Len(history) - 1 > step_count
    /\ activations # <<>>

\* what a snapshot of machine m would hold
SnapOf(m) ==
    [step |-> m.step_count, vars |-> VarsOf(m), stack |-> StackView(m.heap, m.stack),
     stack_depth |-> DepthOf(m), next_instr |-> _peek_next_instr(m)]

\* the machine put back to the state of history entry k (counted from 1)
MachineAt(k) == rewind(Self, k - 1).m

\* history entry k + 1 is what one step makes of history entry k; the suffix
\* counter is not part of a snapshot, so it is any of the values it has had
Follows(k) ==
    /\ DepthOf(MachineAt(k)) > 0
    /\ \E c \in 0..call_ids :
          LET r == step([MachineAt(k) EXCEPT !.call_ids = c]) IN
          r.raised = NoError /\ SnapOf(r.m) = HistView[k + 1]

\* the original wording of C23: in every reachable state every history entry
\* after the first is one step on from the entry before it, and the recorded
\* step counters never decrease
C23_Original ==
    \A k \in 1..(Len(history) - 1) :
        Follows(k) /\ history[k].step <= history[k + 1].step

(* C23: as long as the machine has not been rewound, the history is one      *)
(* contiguous execution trace: every entry after the first is the state one  *)
(* step makes of the entry before it, and the recorded step counters never   *)
(* decrease.  With or without a rewind, every step that executes appends an  *)
(* entry equal to the live state after the step.                             *)
C23_TraceUntilRewind ==
    /\ [](rewinds = 0 =>
            \A k \in 1..(Len(history) - 1) :
                Follows(k) /\ HistView[k].step <= HistView[k + 1].step)
    /\ [][ outcome'.call = "step" /\ outcome'.raised = NoError /\ DepthOf(Self) > 0 =>
             /\ Len(history') = Len(history) + 1
             /\ HistView'[Len(history')] = LiveSnapshot' ]_allvars

\* a trace with a macro call, a step inside the callee and a jump out of it
C23_Witness ==
    /\ rewinds = 0 /\ Stepped /\ Len(history) >= 4
    /\ HistView[2].stack_depth = 2 /\ HistView[4].stack_depth = 1
    /\ HistView[Len(history)] = LiveSnapshot

\* frame above is what the call instruction at code[pc - 1] of frame below
\* pushes: the macro's body without its labels, its labels under one suffix,
\* its parameters aliased through the caller's map, its locals under that suffix
PushedBy(below, above) ==
    /\ below.pc >= 1
    /\ LET instr == below.code[below.pc]
           op == instr[1]
           args == Tail(instr)
       IN
       /\ op \notin {"inc", "dec", "jnz"}
       /\ op \in DOMAIN macros
       /\ Len(args) = Len(macros[op].params)
       /\ above.code = SelectSeq(macros[op].code, IsInstruction)
       /\ \E c \in 0..call_ids :
             /\ above.labels = _resolve_labels(macros[op].code, Suffix(c)).labels
             /\ above.map = NewMap(below.map, macros[op].params, args, macros[op].locals, Suffix(c))

\* a call stack, live or stored, is well nested
Nested(frames) ==
    /\ \A k \in 1..Len(frames) : 0 <= frames[k].pc /\ frames[k].pc <= Len(frames[k].code)
    /\ Len(frames) >= 1 =>
          /\ frames[1].code = program_flat
          /\ frames[1].labels = program_labels
          /\ frames[1].map = EmptyDict
    /\ \A k \in 1..(Len(frames) - 1) : PushedBy(frames[k], frames[k + 1])

(* C24: in the live state and in every stored snapshot, every frame has      *)
(* 0 <= pc <= len(code); the bottom frame is the root frame reset built from *)
(* the loaded program; and every frame below the top one has pc >= 1 with    *)
(* code[pc - 1] the macro call that pushed the frame directly above it.      *)
C24_StrictNesting ==
    /\ Nested(LiveStack)
    /\ \A i \in 1..Len(history) : Nested(HistView[i].stack)

\* a jump out of a callee has cut a stack of three frames down to two, the
\* snapshot before it still holding the three
C24_Witness ==
    /\ Stepped /\ Len(history) >= 2 /\ DepthOf(Self) = 2
    /\ HistView[Len(history) - 1].stack_depth = 3
    /\ step_count = HistView[Len(history) - 1].step + 1
    /\ LiveStack[1].pc >= 1

-----------------------------------------------------------------------------
(* utils.run_program: the interpreter as one function.  Its frames are       *)
(* tuples (instructions, pc, label_map, var_mapping) replaced as a whole,    *)
(* its store and stack are locals of the call, and the only state that       *)
(* outlives a call is the module's counter _call_ids.                        *)

RECURSIVE LabelMapFrom(_, _, _, _, _)
LabelMapFrom(code, suffix, i, label_map, flat) ==
    IF i > Len(code) THEN [flat |-> flat, label_map |-> label_map]
    ELSE IF EndsWith(code[i][1], ":")
    THEN LabelMapFrom(code, suffix, i + 1,
                      ODictSet(label_map,
                               SubSeq(code[i][1], 1, Len(code[i][1]) - 1) \o suffix,
                               Len(flat)),
                      flat)
    ELSE LabelMapFrom(code, suffix, i + 1, label_map, Append(flat, code[i]))

resolve_label_map(code, suffix) == LabelMapFrom(code, suffix, 1, <<>>, <<>>)

\* a frame of run_program's stack
Tuple(instrs, pc, lbls, mapping) ==
    [instrs |-> instrs, pc |-> pc, lbls |-> lbls, mapping |-> mapping]

\* next((k for k in lbls.keys() if k.startswith(target + "__")), None):
\* the place of that key in lbls, 0 for None
Suffixed(lbls, target) ==
    LET pre == {i \in 1..Len(lbls) : StartsWith(lbls[i][1], target \o "__")} IN
    IF pre = {} THEN 0 ELSE Min(pre)

\* stack[-1] = frame
SetTop(st, frame) == [st EXCEPT !.stack[Len(st.stack)] = frame]

\* the loop over the outer frames, from index i (counted from 0) down to 0: the
\* frame that holds the target becomes the top one and steps is incremented
RECURSIVE OuterFrames(_, _, _)
OuterFrames(st, target, i) ==
    IF i < 0 THEN [st EXCEPT !.raised = "LabelNotFound"]
    ELSE LET f == st.stack[i + 1] IN
         IF ODictHas(f.lbls, target)
         THEN [st EXCEPT !.stack = Append(SubSeq(@, 1, i),
                                          Tuple(f.instrs, ODictGet(f.lbls, target), f.lbls, f.mapping)),
                         !.steps = @ + 1]
         ELSE IF Suffixed(f.lbls, target) # 0
         THEN [st EXCEPT !.stack = Append(SubSeq(@, 1, i),
                                          Tuple(f.instrs, f.lbls[Suffixed(f.lbls, target)][2],
                                                f.lbls, f.mapping)),
                         !.steps = @ + 1]
         ELSE OuterFrames(st, target, i - 1)

\* the jnz branch: a jump within the frame increments steps and continues; a
\* jump to an outer frame increments steps and breaks out of the for loop, and
\* the statement after the if chain increments steps again
ProgramJnz(st, args) ==
    LET top == st.stack[Len(st.stack)]
        v == Resolve(top.mapping, args[1])
        target == Resolve(top.mapping, args[2])
    IN
    IF DictGet(st.vars, v, 0) # 0
    THEN IF ODictHas(top.lbls, target)
         THEN [SetTop(st, Tuple(top.instrs, ODictGet(top.lbls, target), top.lbls, top.mapping))
                  EXCEPT !.steps = @ + 1]
         ELSE IF Suffixed(top.lbls, target) # 0
         THEN [SetTop(st, Tuple(top.instrs, top.lbls[Suffixed(top.lbls, target)][2],
                                top.lbls, top.mapping))
                  EXCEPT !.steps = @ + 1]
         ELSE LET o == OuterFrames(st, target, Len(st.stack) - 2) IN
              IF o.raised # NoError THEN o ELSE [o EXCEPT !.steps = @ + 1]
    ELSE [SetTop(st, Tuple(top.instrs, top.pc + 1, top.lbls, top.mapping))
             EXCEPT !.steps = @ + 1]

\* the macro-call branch
ProgramCall(st, op, args, macros_) ==
    LET top == st.stack[Len(st.stack)]
        formals == macros_[op].params
        code == macros_[op].code
        locals_list == macros_[op].locals
    IN
    IF Len(args) # Len(formals) THEN [st EXCEPT !.raised = "ArityMismatch"]
    ELSE
    LET call_id == st.ids
        suffix == "__m" \o ToString(call_id)
        F == {formals[i] : i \in 1..Len(formals)}
        L == {locals_list[i] : i \in 1..Len(locals_list)}
        new_mapping == [n \in F \cup L |->
                           IF n \in L THEN n \o suffix
                           ELSE Resolve(top.mapping,
                                        args[Max({i \in 1..Len(formals) : formals[i] = n})])]
        rl == resolve_label_map(code, suffix)
    IN [st EXCEPT !.ids = call_id + 1,
                  !.stack = Append(SubSeq(@, 1, Len(@) - 1),
                                   Tuple(top.instrs, top.pc + 1, top.lbls, top.mapping))
                            \o << Tuple(rl.flat, 0, rl.label_map, new_mapping) >>,
                  !.steps = @ + 1]

\* one turn of the while loop
ProgramTurn(st, macros_) ==
    LET top == st.stack[Len(st.stack)] IN
    IF top.pc >= Len(top.instrs) THEN [st EXCEPT !.stack = SubSeq(@, 1, Len(@) - 1)]
    ELSE
    LET op == top.instrs[top.pc + 1][1]
        args == Tail(top.instrs[top.pc + 1])
    IN
    IF op = "inc"
    THEN LET v == Resolve(top.mapping, args[1]) IN
         [SetTop(st, Tuple(top.instrs, top.pc + 1, top.lbls, top.mapping))
             EXCEPT !.vars = DictSet(@, v, DictGet(@, v, 0) + 1), !.steps = @ + 1]
    ELSE IF op = "dec"
    THEN LET v == Resolve(top.mapping, args[1]) IN
         [SetTop(st, Tuple(top.instrs, top.pc + 1, top.lbls, top.mapping))
             EXCEPT !.vars = DictSet(@, v, Max({0, DictGet(@, v, 0) - 1})), !.steps = @ + 1]
    ELSE IF op = "jnz" THEN ProgramJnz(st, args)
    ELSE IF op \in DOMAIN macros_ THEN ProgramCall(st, op, args, macros_)
    ELSE [st EXCEPT !.raised = "UnknownInstruction"]

\* while stack and steps < max_steps
RECURSIVE ProgramLoop(_, _, _)
ProgramLoop(st, macros_, max_steps) ==
    IF st.stack # <<>> /\ st.steps < max_steps
    THEN LET t == ProgramTurn(st, macros_) IN
         IF t.raised # NoError THEN t ELSE ProgramLoop(t, macros_, max_steps)
    ELSE st

\* run_program(instructions, inputs, macros, max_steps) with _call_ids at ids:
\* what it raised or returned, the steps it counted, and _call_ids afterwards
run_program(instructions, inputs_, macros_, max_steps, ids) ==
    IF \E k \in DOMAIN inputs_ : ~IsInstanceInt(inputs_[k]) \/ inputs_[k].val < 0
    THEN [raised |-> "InvalidInput", returned |-> None, steps |-> 0, ids |-> ids]
    ELSE
    LET rl == resolve_label_map(instructions, "")
        st == ProgramLoop([vars |-> DictSet([k \in DOMAIN inputs_ |-> inputs_[k].val], "y", 0),
                           stack |-> << Tuple(rl.flat, 0, rl.label_map, EmptyDict) >>,
                           steps |-> 0, ids |-> ids, raised |-> NoError],
                          macros_, max_steps)
    IN IF st.raised # NoError
       THEN [raised |-> st.raised, returned |-> None, steps |-> st.steps, ids |-> st.ids]
       ELSE IF st.steps >= max_steps
       THEN [raised |-> "StepLimitExceeded", returned |-> None, steps |-> st.steps, ids |-> st.ids]
       ELSE [raised |-> NoError, returned |-> st.vars["y"], steps |-> st.steps, ids |-> st.ids]

-----------------------------------------------------------------------------
(* The driver that gives one program, registry, inputs and budget to         *)
(* utils.run_program and to the run of a newly constructed SMachine.         *)

\* run_program is called only while utils._call_ids stays within MaxUtilsCalls
MaxUtilsCalls == 3

\* vm = SMachine(macros), once the machine before it has run
UtilsConstruct ==
    /\ outcome.call = "run"
    /\ Becomes(Constructed(Registry))
    /\ outcome' = [call |-> "SMachine", arg |-> None, raised |-> NoError, returned |-> None]
    /\ utils_outcome' = NoProgramRun
    /\ UNCHANGED <<rewinds, trial, utils_call_ids>>

\* vm.set_inputs(inputs) on the new machine
UtilsSetInputs ==
    /\ history = <<>> /\ utils_outcome.call = "none"
    /\ CallSetInputs
    /\ UNCHANGED <<trial, utils_vars>>

\* vm.set_program(prog) on the new machine
UtilsSetProgram ==
    /\ history = <<>> /\ utils_outcome.call = "none"
    /\ CallSetProgram
    /\ UNCHANGED <<trial, utils_vars>>

\* utils.run_program(prog, inputs, macros, max_steps) with what the machine holds
RunProgram ==
    \E max_steps \in 0..MaxBudget :
        LET r == run_program(program_src, inputs, macros, max_steps, utils_call_ids) IN
        /\ history = <<>> /\ utils_outcome.call = "none"
        /\ r.ids <= MaxUtilsCalls
        /\ utils_call_ids' = r.ids
        /\ utils_outcome' = [call |-> "run_program", program |-> program_src, inputs |-> inputs,
                             max_steps |-> max_steps, raised |-> r.raised,
                             returned |-> r.returned, steps |-> r.steps]
        /\ UNCHANGED <<fields, outcome, rewinds, trial>>

\* vm.run(max_steps) with the same budget
MachineRun ==
    LET r == run(Self, utils_outcome.max_steps) IN
    /\ history = <<>> /\ utils_outcome.call = "run_program"
    /\ outcome.call # "run"
    /\ Becomes(Normalize(r.m))
    /\ outcome' = Called("run", utils_outcome.max_steps, r)
    /\ UNCHANGED <<rewinds, trial, utils_vars>>

NextUtils == UtilsConstruct \/ UtilsSetInputs \/ UtilsSetProgram \/ RunProgram \/ MachineRun

SpecUtils == Init /\ [][NextUtils]_allvars

\* both interpreters have been given the same program, inputs, registry and budget
BothRan ==
    /\ outcome.call = "run" /\ utils_outcome.call = "run_program"
    /\ utils_outcome.program = program_src /\ utils_outcome.inputs = inputs
    /\ utils_outcome.max_steps = outcome.arg
    /\ "y" \notin DOMAIN inputs

(* C25: for the same program, macro registry, inputs without y and           *)
(* max_steps, utils.run_program and the run of a newly constructed SMachine  *)
(* end alike: both raise the same error or both return the same y, and when  *)
(* both return they have counted the same number of steps.                   *)
C25_SameOutcome ==
    BothRan =>
        /\ utils_outcome.raised = outcome.raised
        /\ outcome.raised = NoError =>
              /\ utils_outcome.returned = outcome.returned
              /\ utils_outcome.steps = step_count

=============================================================================
